---- MODULE Spec2Model ----
(***************************************************************************)
(* State-machine model of CleverPrintingAgent: the print spooler           *)
(* (src/src/spooler/PrintSpooler.js), the main-process glue that feeds it  *)
(* from the remote server (processServerJobs and the job event handlers in *)
(* the same file), the server client (src/src/client/ServerClient.js) and  *)
(* the local HTTP API's print route (src/unnamed/part_002).                *)
(* Node runs all of it on a single event-loop thread: every action below   *)
(* is one run-to-completion segment of JavaScript, from the start of a     *)
(* handler (or the resumption of an await) to its next await or return.    *)
(***************************************************************************)
EXTENDS Integers, Sequences, FiniteSets, TLC

\* ---------------------------------------------------------------- bounds
MaxJobs == 2          \* number of addJob calls that pass the queue-size check
MaxShutdown == 1      \* number of shutdown() calls
MaxRetriesCfg == 1    \* configured maxRetries ranges over 0..MaxRetriesCfg
MaxQueueCfg == 2      \* configured maxQueueSize ranges over 1..MaxQueueCfg
MaxServerIds == 2     \* server job ids are 1..MaxServerIds
MaxBatch == 2         \* length of the job list one poll delivers
MaxServerJobs == 3    \* number of jobs processServerJobs may enqueue in all
MaxPad == 1           \* whitespace characters around a configured apiKey
MaxListed == 2        \* length of the queues clearCompletedJobs is applied to
MaxInFlight == 3      \* polls and heartbeats sent and not yet answered

\* A processQueue loop can only be started while isProcessing is false, and
\* while another loop is live only shutdown() makes it false.
NLoops == MaxShutdown + 1
\* The statuses the code gives a job.
Statuses == {"queued", "processing", "completed", "failed", "cancelled"}

Priorities == {"high", "normal", "low"}
LoopIds == 1..NLoops
NoJob == 0            \* null
ServerIds == 1..MaxServerIds
NoServerId == 0       \* job.serverJobId undefined

\* What job.data holds: html (or url) content, loaded into the print window,
\* or pdfBase64 (or pdf), which loadPDFForPrinting writes to a temp file.
Kinds == {"html", "pdfBase64"}
\* jobData with none of pdf, pdfBase64, pdfPath, pdfUrl, html, url set
NoContent == "none"
\* What a submission carries: html content or nothing to print.
Payloads == {"html", NoContent}

VARIABLES
    maxRetries,       \* this.maxRetries
    maxQueueSize,     \* this.maxQueueSize
    storedConfig,     \* configManager.config: the stored maxRetries and maxQueueSize
    jobs,             \* every job object created by addJob, indexed by id
    jobQueue,         \* this.jobQueue: sequence of job ids
    currentJob,       \* this.currentJob: a job id or NoJob
    isProcessing,     \* this.isProcessing
    loops,            \* the processQueue invocations and where each is suspended
    pendingImmediate, \* setImmediate(() => this.processQueue()) callbacks not yet run
    shutdownCalls,    \* number of shutdown() calls so far
    emitted,          \* per job, how many job-completed and job-failed events were emitted
    attempts,         \* per job, executePrint calls since addJob or retryJob enqueued it
    ownFails,         \* per job, number of its executePrint calls that rejected
    cancelledInFlight,\* jobs cancelled while their executePrint call was pending
    queueFullErrors,  \* whether addJob has thrown its queue-full error
    tempFiles,        \* per job, how many temp PDF files written for it are on disk
    lastCall,         \* the latest call, when it is one whose result is observed
    posted,           \* per server job id, the status POSTs sent so far
    pendingPosts,     \* number of status POSTs sent and not yet answered
    batch,            \* processServerJobs: the part of newJobs still to be handled
    skippedIds,       \* server job ids dropped from a batch because the queue was full
    apiKey,           \* the configured apiKey, a sequence of characters
    headers,          \* the headers makeRequest built for the latest request
    serverBaseUrl,    \* the configured serverBaseUrl, a sequence of characters
    isPolling,        \* serverClient.isPolling
    pollInterval,     \* whether serverClient.pollInterval holds a timer
    pollTimers,       \* number of live polling interval timers
    heartbeatInterval,\* whether serverClient.heartbeatInterval holds a timer
    heartbeatTimers,  \* number of live heartbeat interval timers
    currentStatus,    \* serverClient.currentStatus
    requests,         \* polls and heartbeats sent and not yet answered
    microtasks        \* the promise jobs queued and not yet run, oldest first

vars == <<maxRetries, maxQueueSize, storedConfig, jobs, jobQueue, currentJob,
          isProcessing, loops, pendingImmediate, shutdownCalls, emitted, attempts, ownFails,
          cancelledInFlight, queueFullErrors, tempFiles, lastCall, posted,
          pendingPosts, batch, skippedIds, apiKey, headers, serverBaseUrl,
          isPolling, pollInterval, pollTimers, heartbeatInterval,
          heartbeatTimers, currentStatus, requests, microtasks>>

configVars == <<maxRetries, maxQueueSize, storedConfig>>
serverVars == <<posted, pendingPosts, batch, skippedIds>>
timerVars == <<serverBaseUrl, isPolling, pollInterval, pollTimers,
               heartbeatInterval, heartbeatTimers, currentStatus, requests>>
clientVars == <<apiKey, headers, timerVars, microtasks>>

JobIds == 1..Len(jobs)

\* ------------------------------------------------------------- helpers
NoEvents == [completed |-> 0, failed |-> 0]

\* this.emit('job-completed', job) and this.emit('job-failed', job, error).
\* The job-added and job-updated events only refresh the window
\* (src/src/spooler/PrintSpooler.js:876-886) and are not recorded.
Emit(em, j, kind) == [em EXCEPT ![j][kind] = @ + 1]

IdleLoop == [pc |-> "idle", job |-> NoJob]

FreeLoop == CHOOSE l \in LoopIds : loops[l].pc = "idle"

priorityOrder(p) == CASE p = "high" -> 3 [] p = "normal" -> 2 [] p = "low" -> 1

\* processQueue without the sort: plain FIFO.
SortByPriority_NoSort(js, q) == q

\* Array.prototype.sort with the comparator priorityOrder[b] - priorityOrder[a]:
\* a stable sort by descending priority.
SortByPriority(js, q) ==
    SelectSeq(q, LAMBDA j : priorityOrder(js[j].priority) = 3) \o
    SelectSeq(q, LAMBDA j : priorityOrder(js[j].priority) = 2) \o
    SelectSeq(q, LAMBDA j : priorityOrder(js[j].priority) = 1)

\* Array.prototype.findIndex(j => j.id === id): 0 stands for -1.
FindIndex(q, id) ==
    IF \E i \in 1..Len(q) : q[i] = id
    THEN CHOOSE i \in 1..Len(q) : q[i] = id /\ \A k \in 1..(i-1) : q[k] # id
    ELSE 0

\* Array.prototype.splice(i, 1)
Splice(q, i) == SubSeq(q, 1, i-1) \o SubSeq(q, i+1, Len(q))

InQueue(q, id) == \E i \in 1..Len(q) : q[i] = id

\* ------------------------------------------------- the server URL setting
\* Strings are sequences of one-character strings.
RECURSIVE trimStart(_)
trimStart(str) ==
    IF str # <<>> /\ Head(str) = " " THEN trimStart(Tail(str)) ELSE str

RECURSIVE trimEnd(_)
trimEnd(str) ==
    IF str # <<>> /\ str[Len(str)] = " "
    THEN trimEnd(SubSeq(str, 1, Len(str) - 1)) ELSE str

\* String.prototype.trim
trim(str) == trimEnd(trimStart(str))

\* A serverBaseUrl that names a server.
ServerUrl == <<"u">>

\* The serverBaseUrl settings tried: empty, blank, and a URL.
Urls == {<<>>, <<" ">>, ServerUrl}

\* isConfigured() testing the URL without trimming it.
isConfigured_NoTrim == serverBaseUrl # <<>>

\* ServerClient.isConfigured(): url && url.trim().length > 0
isConfigured == serverBaseUrl # <<>> /\ Len(trim(serverBaseUrl)) > 0

\* --------------------------------------------------- temp PDF files on disk
\* For one job: whether the file jobData._tempPdfPath names exists, and how
\* many files written for earlier attempts (no longer named by it) exist.
NoFiles == [latest |-> FALSE, leaked |-> 0]

\* loadPDFForPrinting, pdfBase64/pdf branch: fs.writeFileSync(pdfPath, pdfData)
\* under a fresh name, and jobData._tempPdfPath = pdfPath.  It runs inside the
\* executePrint call, before processQueue reaches its await.
writeTemp(tf, js, j) ==
    IF js[j].kind = "pdfBase64"
    THEN [tf EXCEPT ![j] = [latest |-> TRUE,
                            leaked |-> @.leaked + (IF @.latest THEN 1 ELSE 0)]]
    ELSE tf

\* The callback of webContents.print in printPDF: unlinks
\* jobData._tempPdfPath when that file exists.  printPDF is only called once
\* loadPDFForPrinting has resolved (loaded).
unlinkTemp(tf, j, loaded) ==
    IF jobs[j].kind = "pdfBase64" /\ loaded
    THEN [tf EXCEPT ![j].latest = FALSE]
    ELSE tf

FilesOnDisk(j) == tempFiles[j].leaked + (IF tempFiles[j].latest THEN 1 ELSE 0)

\* ------------------------------------------- status reports to the server
\* Per server job id: the POSTs sent with status printed, with status failed,
\* and those of the latter whose body has an errorMessage.
NoPosts == [printed |-> 0, failed |-> 0, failedWithMessage |-> 0]

NoMessage == "null"

\* ServerClient.updateJobStatus maps the local status to the server's.
serverStatus(status) ==
    IF status = "completed" THEN "printed"
    ELSE IF status # "printed" /\ status # "failed" THEN "failed"
    ELSE status

\* ServerClient.updateJobStatus(jobId, status, errorMessage) up to its
\* `await this.makeRequest('POST', ...)`: one POST is sent unless the server
\* URL is not configured or jobId is missing.
updateJobStatus(jobId, status, errorMessage) ==
    IF ~isConfigured \/ jobId = NoServerId
    THEN UNCHANGED <<posted, pendingPosts>>
    ELSE /\ posted' =
               [posted EXCEPT
                  ![jobId][serverStatus(status)] = @ + 1,
                  ![jobId].failedWithMessage =
                      IF serverStatus(status) = "failed" /\ errorMessage # NoMessage
                      THEN @ + 1 ELSE @]
         /\ pendingPosts' = pendingPosts + 1

\* The job-completed handler without its report to the server.
onJobCompleted_NoPost(js, j) == UNCHANGED <<posted, pendingPosts>>

\* printSpooler.on('job-completed', ...), run by emit().
onJobCompleted(js, j) ==
    IF js[j].serverJobId # NoServerId
    THEN updateJobStatus(js[j].serverJobId, "printed", NoMessage)
    ELSE UNCHANGED <<posted, pendingPosts>>

\* printSpooler.on('job-failed', ...), run by emit() with the caught error.
onJobFailed(js, j, errorMessage) ==
    IF js[j].serverJobId # NoServerId
    THEN updateJobStatus(js[j].serverJobId, "failed", errorMessage)
    ELSE UNCHANGED <<posted, pendingPosts>>

\* ---------------------------------------------------------------- Init
SpoolerInit ==
    /\ jobs = <<>>
    /\ jobQueue = <<>>
    /\ currentJob = NoJob
    /\ isProcessing = FALSE
    /\ loops = [l \in LoopIds |-> IdleLoop]
    /\ pendingImmediate = 0
    /\ shutdownCalls = 0
    /\ emitted = <<>>
    /\ attempts = <<>>
    /\ ownFails = <<>>
    /\ cancelledInFlight = {}
    /\ queueFullErrors = FALSE
    /\ tempFiles = <<>>
    /\ lastCall = "other"

ServerInit ==
    /\ posted = [s \in {NoServerId} \cup ServerIds |-> NoPosts]
    /\ pendingPosts = 0
    /\ batch = <<>>
    /\ skippedIds = {}
    /\ microtasks = <<>>

\* A header makeRequest does not set.
Absent == <<"(absent)">>

NoAuthHeaders == [Authorization |-> Absent, XAPIKey |-> Absent]

\* configManager.get('apiKey', '') with nothing stored, and no request built.
ClientInit ==
    /\ apiKey = <<>>
    /\ headers = NoAuthHeaders

\* The PrintSpooler constructor has copied the stored settings into its
\* fields.
StoreInit ==
    storedConfig = [maxRetries |-> maxRetries, maxQueueSize |-> maxQueueSize]

\* The ServerClient constructor: nothing started, nothing sent.
TimerInit ==
    /\ isPolling = FALSE
    /\ pollInterval = FALSE
    /\ pollTimers = 0
    /\ heartbeatInterval = FALSE
    /\ heartbeatTimers = 0
    /\ currentStatus = "online"
    /\ requests = <<>>

\* The agent after construction, with a server URL stored in its config.
Init ==
    /\ maxRetries \in 0..MaxRetriesCfg
    /\ maxQueueSize \in 1..MaxQueueCfg
    /\ StoreInit
    /\ SpoolerInit
    /\ ServerInit
    /\ ClientInit
    /\ TimerInit
    /\ serverBaseUrl = ServerUrl

\* ------------------------------------------------- processQueue, the loop
\* A dispatch that marks the job as printing.
dispatchStatus_Printing == "printing"

\* this.currentJob.status = 'processing'
dispatchStatus == "processing"

\* processQueue leaving its loop without resetting the flag.
flagAfterLoop_Kept == TRUE

\* this.isProcessing = false, after the while loop
flagAfterLoop == FALSE

\* One pass of `while (this.jobQueue.length > 0)` in loop l, up to the await of
\* executePrint, or the exit of the loop.  js, q, em, at, tf are the job
\* objects, the queue, the events, the executePrint calls counted and the temp
\* files as the code before the loop test left them; ip is the value
\* isProcessing has when the loop test is reached.
LoopTest(l, js, q, em, at, ip, tf) ==
    IF Len(q) > 0
    THEN LET s == SortByPriority(js, q)
             j == Head(s)
         IN  /\ jobQueue' = Tail(s)
             /\ currentJob' = j
             /\ jobs' = [js EXCEPT ![j].status = dispatchStatus]
             /\ emitted' = em
             /\ attempts' = [at EXCEPT ![j] = @ + 1]
             /\ loops' = [loops EXCEPT ![l] = [pc |-> "print", job |-> j]]
             /\ isProcessing' = ip
             /\ tempFiles' = writeTemp(tf, js, j)
    ELSE /\ jobQueue' = q
         /\ currentJob' = NoJob
         /\ jobs' = js
         /\ emitted' = em
         /\ attempts' = at
         /\ loops' = [loops EXCEPT ![l] = IdleLoop]
         /\ isProcessing' = flagAfterLoop
         /\ tempFiles' = tf

\* processQueue(): the guard at its top, then the first pass of the loop.
processQueue(js, q, em, at, tf) ==
    IF isProcessing \/ Len(q) = 0
    THEN /\ jobQueue' = q
         /\ jobs' = js
         /\ emitted' = em
         /\ attempts' = at
         /\ tempFiles' = tf
         /\ UNCHANGED <<currentJob, loops, isProcessing>>
    ELSE LoopTest(FreeLoop, js, q, em, at, TRUE, tf)

\* ---------------------------------------------------------------- addJob
\* The queue-size check of addJob: true when addJob throws
\* 'Print queue is full. Please wait for jobs to complete.'
\* (addJobThrows_OffByOne: the check with > for >=.)
addJobThrows_OffByOne == Len(jobQueue) > maxQueueSize

addJobThrows == Len(jobQueue) >= maxQueueSize

\* addJob(jobData) with jobData.priority = p and content of kind k; sid is the
\* serverJobId its caller gives the returned job (processServerJobs does, one
\* microtask after addJob returns, before any other handler can run).
addJobTo(js, p, k, sid) ==
    LET id == Len(js) + 1
        job == [status |-> "queued", priority |-> p, retryCount |-> 0,
                error |-> "null", kind |-> k, serverJobId |-> sid]
    IN  IF addJobThrows
        THEN /\ queueFullErrors' = TRUE
             /\ jobs' = js
             /\ UNCHANGED <<jobQueue, currentJob, isProcessing, loops,
                            emitted, attempts, ownFails, tempFiles>>
        ELSE /\ processQueue(Append(js, job), Append(jobQueue, id),
                             Append(emitted, NoEvents), Append(attempts, 0),
                             Append(tempFiles, NoFiles))
             /\ ownFails' = Append(ownFails, 0)
             /\ UNCHANGED queueFullErrors

\* addJob on the jobs as they are.
addJob(p, k, sid) == addJobTo(jobs, p, k, sid)

\* addJob called by the local API or the window, with content of kind k.
AddJobOfKind(p, k) ==
    /\ addJobThrows \/ Len(jobs) < MaxJobs
    /\ addJob(p, k, NoServerId)
    /\ lastCall' = "other"
    /\ UNCHANGED <<configVars, pendingImmediate, shutdownCalls,
                   cancelledInFlight, serverVars, clientVars>>

AddJob(p) == AddJobOfKind(p, "html")

\* ------------------------------------------------------------- cancelJob
\* What cancelJob(id) returns when called in the current state.
cancelJobReturns(id) ==
    FindIndex(jobQueue, id) # 0 \/ (currentJob # NoJob /\ currentJob = id)

\* Some executePrint(id) call is pending.
PrintPending(id) == \E l \in LoopIds : loops[l] = [pc |-> "print", job |-> id]

CancelJob(id) ==
    /\ LET jobIndex == FindIndex(jobQueue, id)
       IN  IF jobIndex # 0
           THEN /\ jobQueue' = Splice(jobQueue, jobIndex)
                /\ jobs' = [jobs EXCEPT ![id].status = "cancelled"]
                /\ cancelledInFlight' =
                       IF PrintPending(id) THEN cancelledInFlight \cup {id}
                                           ELSE cancelledInFlight
                /\ UNCHANGED <<currentJob, pendingImmediate>>
           ELSE IF currentJob # NoJob /\ currentJob = id
           THEN /\ jobs' = [jobs EXCEPT ![id].status = "cancelled"]
                /\ currentJob' = NoJob
                /\ pendingImmediate' = pendingImmediate + 1
                /\ cancelledInFlight' =
                       IF PrintPending(id) THEN cancelledInFlight \cup {id}
                                           ELSE cancelledInFlight
                /\ UNCHANGED jobQueue
           ELSE UNCHANGED <<jobs, jobQueue, currentJob, pendingImmediate,
                            cancelledInFlight>>
    /\ lastCall' = "other"
    /\ UNCHANGED <<configVars, isProcessing, loops, shutdownCalls, emitted,
                   attempts, ownFails, queueFullErrors, tempFiles, serverVars,
                   clientVars>>

\* The callback cancelJob schedules with setImmediate.
RunImmediateStep ==
    /\ pendingImmediate > 0
    /\ pendingImmediate' = pendingImmediate - 1
    /\ processQueue(jobs, jobQueue, emitted, attempts, tempFiles)
    /\ lastCall' = "other"
    /\ UNCHANGED <<configVars, shutdownCalls, ownFails, cancelledInFlight,
                   queueFullErrors, serverVars, apiKey, headers, timerVars>>

RunImmediate == RunImmediateStep /\ UNCHANGED microtasks

\* -------------------------------------------------------------- retryJob
\* retryJob without its status test.
retryJobReturns_AnyStatus(id) ==
    InQueue(jobQueue, id) \/ (currentJob # NoJob /\ currentJob = id)

\* What retryJob(id) returns when called in the current state.
retryJobReturns(id) ==
    /\ InQueue(jobQueue, id) \/ (currentJob # NoJob /\ currentJob = id)
    /\ jobs[id].status = "failed"

RetryJob(id) ==
    /\ IF retryJobReturns(id)
       THEN processQueue(
                [jobs EXCEPT ![id].status = "queued",
                             ![id].retryCount = 0,
                             ![id].error = "null"],
                IF InQueue(jobQueue, id) THEN jobQueue
                                         ELSE Append(jobQueue, id),
                emitted, [attempts EXCEPT ![id] = 0], tempFiles)
       ELSE UNCHANGED <<jobs, jobQueue, currentJob, isProcessing, loops,
                        emitted, attempts, tempFiles>>
    /\ lastCall' = IF retryJobReturns(id) THEN "other" ELSE "retryJob:false"
    /\ UNCHANGED <<configVars, pendingImmediate, shutdownCalls, ownFails,
                   cancelledInFlight, queueFullErrors, serverVars, clientVars>>

\* ---------------------------------------------------- clearCompletedJobs
\* job => job.status !== 'completed'
notCompleted(j) == jobs[j].status # "completed"

\* What clearCompletedJobs() returns when called in the current state.
clearCompletedJobsReturns ==
    Len(jobQueue) - Len(SelectSeq(jobQueue, notCompleted))

\* lastCall after clearCompletedJobs: whether the call removed a job, and
\* whether the call before it was clearCompletedJobs too.
ClearCalls == {"clear:some", "clear:none", "clear:some,again", "clear:none,again"}

\* clearCompletedJobs dropping the head of the queue, whatever its status.
clearCompletedJobs_Shift ==
    /\ jobQueue' = IF Len(jobQueue) > 0 THEN Tail(jobQueue) ELSE jobQueue
    /\ lastCall' =
          IF lastCall \in ClearCalls
          THEN (IF lastCall \in {"clear:some", "clear:some,again"}
                THEN "clear:some,again" ELSE "clear:none,again")
          ELSE (IF clearCompletedJobsReturns > 0 THEN "clear:some"
                                                 ELSE "clear:none")
    /\ UNCHANGED <<configVars, jobs, currentJob, isProcessing, loops,
                   pendingImmediate, shutdownCalls, emitted, attempts,
                   ownFails, cancelledInFlight, queueFullErrors, tempFiles,
                   serverVars, clientVars>>

clearCompletedJobs ==
    /\ jobQueue' = SelectSeq(jobQueue, notCompleted)
    /\ lastCall' =
          IF lastCall \in ClearCalls
          THEN (IF lastCall \in {"clear:some", "clear:some,again"}
                THEN "clear:some,again" ELSE "clear:none,again")
          ELSE (IF clearCompletedJobsReturns > 0 THEN "clear:some"
                                                 ELSE "clear:none")
    /\ UNCHANGED <<configVars, jobs, currentJob, isProcessing, loops,
                   pendingImmediate, shutdownCalls, emitted, attempts,
                   ownFails, cancelledInFlight, queueFullErrors, tempFiles,
                   serverVars, clientVars>>

\* -------------------------------------------------------------- shutdown
Shutdown ==
    /\ shutdownCalls < MaxShutdown
    /\ shutdownCalls' = shutdownCalls + 1
    /\ isProcessing' = FALSE
    /\ lastCall' = "other"
    /\ UNCHANGED <<configVars, jobs, jobQueue, currentJob, loops,
                   pendingImmediate, emitted, attempts, ownFails,
                   cancelledInFlight, queueFullErrors, tempFiles, serverVars,
                   clientVars>>

\* The retry test with <= for <: one retry too many.
retriesLeft_OneMore(c) == jobs[c].retryCount <= maxRetries

\* The retry test comparing the count after the increment: one retry too few.
retriesLeft_OneLess(c) == jobs[c].retryCount + 1 < maxRetries

\* The retry test of processQueue's catch block.
retriesLeft(c) == jobs[c].retryCount < maxRetries

\* The failed job put back at the end of the queue.
requeue_AtTail(c, q) == Append(q, c)

\* this.jobQueue.unshift(this.currentJob)
requeue(c, q) == <<c>> \o q

\* --------------------------------- processQueue resumes after executePrint
\* `await this.executePrint(this.currentJob)` settles in loop l: resolved when
\* ok, rejected otherwise.  For a pdfBase64 job a rejection comes either from
\* loadPDFForPrinting (did-fail-load: not loaded, printPDF never runs) or from
\* the print callback of printPDF (loaded).  The code after the await reads
\* this.currentJob again; when it is null the assignment throws a TypeError
\* inside the try, the catch block throws it again on
\* `this.currentJob.error = ...`, and the processQueue promise rejects with
\* isProcessing left as it was.  For a job without content executePrint
\* rejects with 'No print content provided'.
PrintReturnsStep(l, ok) ==
    /\ loops[l].pc = "print"
    /\ jobs[loops[l].job].kind = NoContent => ~ok
    /\ ownFails' = IF ok THEN ownFails
                         ELSE [ownFails EXCEPT ![loops[l].job] = @ + 1]
    /\ \E loaded \in BOOLEAN :
         /\ (ok \/ jobs[loops[l].job].kind # "pdfBase64") => loaded
         /\ LET tf == unlinkTemp(tempFiles, loops[l].job, loaded) IN
            IF currentJob = NoJob
            THEN /\ loops' = [loops EXCEPT ![l] = IdleLoop]
                 /\ tempFiles' = tf
                 /\ UNCHANGED <<jobs, jobQueue, currentJob, isProcessing,
                                emitted, attempts, posted, pendingPosts>>
            ELSE LET c == currentJob IN
                 IF ok
                 THEN /\ LoopTest(l, [jobs EXCEPT ![c].status = "completed"],
                                  jobQueue, Emit(emitted, c, "completed"),
                                  attempts, isProcessing, tf)
                      /\ onJobCompleted(jobs, c)
                 ELSE IF retriesLeft(c)
                 THEN /\ jobs' = [jobs EXCEPT ![c].error = "message",
                                              ![c].retryCount = @ + 1,
                                              ![c].status = "queued"]
                      /\ jobQueue' = requeue(c, jobQueue)
                      /\ loops' = [loops EXCEPT ![l].pc = "sleep"]
                      /\ tempFiles' = tf
                      /\ UNCHANGED <<currentJob, isProcessing, attempts,
                                     emitted, posted, pendingPosts>>
                 ELSE /\ LoopTest(l, [jobs EXCEPT ![c].error = "message",
                                                  ![c].status = "failed"],
                                  jobQueue, Emit(emitted, c, "failed"),
                                  attempts, isProcessing, tf)
                      /\ onJobFailed(jobs, c, "message")
    /\ lastCall' = "other"
    /\ UNCHANGED <<configVars, pendingImmediate, shutdownCalls,
                   cancelledInFlight, queueFullErrors, batch, skippedIds,
                   apiKey, headers, timerVars>>

\* The same, when the job it goes on with (if any) is one whose executePrint
\* call does not settle before the next timer or I/O callback.
PrintReturns(l, ok) == PrintReturnsStep(l, ok) /\ UNCHANGED microtasks

\* `await this.sleep(this.retryDelay)` returns in loop l.
SleepReturnsStep(l) ==
    /\ loops[l].pc = "sleep"
    /\ LoopTest(l, jobs, jobQueue, emitted, attempts, isProcessing, tempFiles)
    /\ lastCall' = "other"
    /\ UNCHANGED <<configVars, pendingImmediate, shutdownCalls, ownFails,
                   cancelledInFlight, queueFullErrors, serverVars, apiKey,
                   headers, timerVars>>

SleepReturns(l) == SleepReturnsStep(l) /\ UNCHANGED microtasks

\* ------------------------------------------------------------------ Next
Next ==
    \/ \E p \in Priorities : AddJob(p)
    \/ \E id \in 1..MaxJobs : CancelJob(id)
    \/ RunImmediate
    \/ \E id \in 1..MaxJobs : RetryJob(id)
    \/ clearCompletedJobs
    \/ Shutdown
    \/ \E l \in LoopIds, ok \in BOOLEAN : PrintReturns(l, ok)
    \/ \E l \in LoopIds : SleepReturns(l)

Spec == Init /\ [][Next]_vars

\* The event loop eventually runs every timer, promise and immediate callback.
FairSpec ==
    /\ Spec
    /\ WF_vars(\E l \in LoopIds, ok \in BOOLEAN : PrintReturns(l, ok))
    /\ WF_vars(\E l \in LoopIds : SleepReturns(l))
    /\ WF_vars(RunImmediate)

TypeOK ==
    /\ maxRetries \in 0..MaxRetriesCfg
    /\ maxQueueSize \in 1..MaxQueueCfg
    /\ currentJob \in JobIds \cup {NoJob}
    /\ isProcessing \in BOOLEAN
    /\ \A i \in 1..Len(jobQueue) : jobQueue[i] \in JobIds
    /\ Len(emitted) = Len(jobs) /\ Len(attempts) = Len(jobs)
    /\ Len(ownFails) = Len(jobs) /\ Len(tempFiles) = Len(jobs)
    /\ \A j \in JobIds : jobs[j].kind \in Kinds \cup {NoContent}
                         /\ jobs[j].serverJobId \in {NoServerId} \cup ServerIds

\* ======================================================================
\* Properties
\* ======================================================================
InFlightStatus == {"processing", "printing"}

\* C1: in every reachable state at most one job has status processing or
\* printing.
C1_AtMostOneInFlight ==
    Cardinality({j \in JobIds : jobs[j].status \in InFlightStatus}) <= 1

\* A step in which executePrint is called for job d.
Dispatched(d) ==
    /\ d \in DOMAIN attempts'
    /\ attempts'[d] = 1 + (IF d \notin DOMAIN attempts THEN 0
                           ELSE IF RetryJob(d) /\ retryJobReturns(d) THEN 0
                           ELSE attempts[d])

\* C2: every dispatch picks, among the jobs queued at that moment, one of the
\* highest priority and, among those, the one enqueued earliest: no job left in
\* the queue has a higher priority than the dispatched job, or the same
\* priority and an earlier enqueue.
C2_DispatchOrder ==
    [][\A d \in 1..MaxJobs : Dispatched(d) =>
          \A i \in 1..Len(jobQueue') :
             LET k == jobQueue'[i] IN
             \/ priorityOrder(jobs'[k].priority) < priorityOrder(jobs'[d].priority)
             \/ /\ jobs'[k].priority = jobs'[d].priority
                /\ d <= k]_vars

\* C2 witness: a job was dispatched while a job of lower priority, enqueued
\* before it, stays queued.
C2_Witness ==
    \E d \in JobIds : \E i \in 1..Len(jobQueue) :
        /\ currentJob = d /\ PrintPending(d)
        /\ jobQueue[i] < d
        /\ priorityOrder(jobs[jobQueue[i]].priority) < priorityOrder(jobs[d].priority)

\* C3: addJob succeeds when maxQueueSize-1 jobs are queued, and fails with the
\* queue-full error, adding nothing, when maxQueueSize or more are queued.
C3_QueueBoundary ==
    [][\A p \in Priorities : AddJob(p) =>
          /\ Len(jobQueue) >= maxQueueSize =>
                queueFullErrors' /\ jobs' = jobs /\ jobQueue' = jobQueue
          /\ Len(jobQueue) = maxQueueSize - 1 =>
                /\ Len(jobs') = Len(jobs) + 1
                /\ InQueue(jobQueue', Len(jobs')) \/ currentJob' = Len(jobs')
                /\ queueFullErrors' = queueFullErrors]_vars

\* C3 witness: the queue was filled up to maxQueueSize by accepted jobs and a
\* further addJob was refused.
C3_Witness ==
    /\ queueFullErrors
    /\ Len(jobQueue) = maxQueueSize
    /\ \A i \in 1..Len(jobQueue) : jobs[jobQueue[i]].status = "queued"

C5_RetryCountBound ==
    [][\A j \in DOMAIN jobs' :
          /\ jobs'[j].retryCount <= maxRetries
          /\ (jobs'[j].status = "failed" /\
              (j \notin DOMAIN jobs \/ jobs[j].status # "failed"))
                => jobs'[j].retryCount = maxRetries]_vars

\* C5 witness: a job went to failed after using up at least one retry.
C5_Witness ==
    \E j \in JobIds :
        /\ jobs[j].status = "failed"
        /\ jobs[j].retryCount = maxRetries
        /\ maxRetries >= 1
        /\ emitted[j].failed = 1

\* C6: when a print attempt of a job succeeds after k <= maxRetries failed
\* attempts of that job (the job not being cancelled), the job is completed
\* with retryCount = k, one job-completed event and no job-failed event.
C6_RetryThenSuccess ==
    [][\A l \in LoopIds :
          (PrintReturns(l, TRUE) /\ jobs[loops[l].job].status # "cancelled"
                                 /\ ownFails[loops[l].job] <= maxRetries)
          => LET j == loops[l].job IN
             /\ jobs'[j].status = "completed"
             /\ jobs'[j].retryCount = ownFails[j]
             /\ emitted'[j] = [completed |-> 1, failed |-> 0]]_vars

\* C7: after cancelJob on the job in flight, every job still queued is
\* eventually dispatched (leaves the queue).
C7_KeepsWorking ==
    \A k \in 1..MaxJobs :
        (cancelledInFlight # {} /\ InQueue(jobQueue, k)) ~> ~InQueue(jobQueue, k)

\* C8: a job cancelled while in flight keeps status cancelled, and no
\* job-completed or job-failed event is emitted for it, whatever the outcome
\* of the running print.
C8_CancelSuppressesResult ==
    [][\A j \in cancelledInFlight :
          /\ jobs'[j].status = "cancelled"
          /\ emitted'[j] = emitted[j]]_vars

\* C9: cancelJob on a queued job returns true, removes the job from the queue
\* and sets its status to cancelled, and a second cancelJob with the same id
\* returns false.
C9_CancelQueuedIdempotent ==
    [][\A id \in 1..MaxJobs :
          (CancelJob(id) /\ InQueue(jobQueue, id)) =>
              /\ cancelJobReturns(id)
              /\ ~InQueue(jobQueue', id)
              /\ jobs'[id].status = "cancelled"
              /\ ~cancelJobReturns(id)']_vars

\* C10: retryJob on a job that has reached status failed returns true.
C10_RetryFailedJob ==
    \A j \in JobIds : jobs[j].status = "failed" => retryJobReturns(j)

\* ------------------------------------------------------------- listings
\* getJobQueue(): a copy of the queue with the current job put in front.
\* getAllJobs() returns getJobQueue(); GET /api/jobs/:jobId and the get-jobs
\* IPC handler search and return this list.
getJobQueue == IF currentJob # NoJob THEN <<currentJob>> \o jobQueue ELSE jobQueue

\* C11: retryJob(id) on a job whose status is not failed, or on an unknown id,
\* returns false and leaves the queue, the current job, every job's fields and
\* the emitted events (and the reports sent for them) unchanged.
C11_RetryNotFailedNoOp ==
    [][\A id \in 1..MaxJobs :
          (RetryJob(id) /\ (id \notin JobIds \/ jobs[id].status # "failed"))
          => /\ ~retryJobReturns(id)
             /\ lastCall' = "retryJob:false"
             /\ UNCHANGED <<jobs, jobQueue, currentJob, emitted, isProcessing,
                            loops, attempts, posted, pendingPosts>>]_vars

\* C11 witness: retryJob has just returned false while no job is failed, one
\* job waits in the queue with a used retry and is the current job too, so
\* that retryJob found it and only its status made the call a no-op.
C11_Witness ==
    /\ lastCall = "retryJob:false"
    /\ \A j \in JobIds : jobs[j].status # "failed"
    /\ \E j \in JobIds : /\ InQueue(jobQueue, j) /\ currentJob = j
                         /\ jobs[j].status = "queued"
                         /\ jobs[j].retryCount > 0

\* C17: a completed job is returned by the job listing, and so by
\* GET /api/jobs/:id, with status completed.
C17_CompletedRetrievable ==
    \A j \in JobIds :
        jobs[j].status = "completed" => InQueue(getJobQueue, j)

\* C18: the list getAllJobs / getJobQueue returns holds each job id at most
\* once.
C18_ListedOnce ==
    \A i, k \in 1..Len(getJobQueue) : i # k => getJobQueue[i] # getJobQueue[k]

\* C19: clearCompletedJobs returns the number of jobs completed since the last
\* clear: called right after a job's status has become completed it returns
\* at least 1.
C19_ClearCountsCompleted ==
    [][\A j \in DOMAIN jobs' :
          (jobs'[j].status = "completed" /\
           (j \notin DOMAIN jobs \/ jobs[j].status # "completed"))
          => clearCompletedJobsReturns' >= 1]_vars

\* ------------------------------------- clearCompletedJobs as a function
\* clearCompletedJobs depends on the queue and the statuses of the jobs in it
\* only.  ClearSpec applies it to every queue of up to MaxListed distinct jobs
\* with every combination of statuses, the spooler being idle.

ListedJobs ==
    [status : Statuses, priority : {"normal"}, retryCount : {0},
     error : {"null"}, kind : {"html"}, serverJobId : {NoServerId}]

QueuesOf(n) ==
    {q \in UNION {[1..k -> 1..n] : k \in 0..n} :
        \A i, k \in 1..Len(q) : i # k => q[i] # q[k]}

ClearInit ==
    /\ maxRetries = 0
    /\ maxQueueSize = MaxQueueCfg
    /\ StoreInit
    /\ jobs \in [1..MaxListed -> ListedJobs]
    /\ jobQueue \in QueuesOf(MaxListed)
    /\ currentJob = NoJob
    /\ isProcessing = FALSE
    /\ loops = [l \in LoopIds |-> IdleLoop]
    /\ pendingImmediate = 0
    /\ shutdownCalls = 0
    /\ emitted = [j \in 1..MaxListed |-> NoEvents]
    /\ attempts = [j \in 1..MaxListed |-> 0]
    /\ ownFails = [j \in 1..MaxListed |-> 0]
    /\ cancelledInFlight = {}
    /\ queueFullErrors = FALSE
    /\ tempFiles = [j \in 1..MaxListed |-> NoFiles]
    /\ lastCall = "other"
    /\ ServerInit
    /\ ClientInit
    /\ TimerInit
    /\ serverBaseUrl = ServerUrl

ClearNext == clearCompletedJobs

ClearSpec == ClearInit /\ [][ClearNext]_vars

\* C20: clearCompletedJobs called right after clearCompletedJobs returns 0 and
\* leaves the spooler state as the first call left it.
C20_ClearIdempotent ==
    [][(clearCompletedJobs /\ lastCall \in ClearCalls)
          => /\ clearCompletedJobsReturns = 0
             /\ UNCHANGED <<jobs, jobQueue, currentJob, isProcessing, loops,
                            emitted, attempts>>]_vars

\* C20 witness: clearCompletedJobs removed a completed job, was called again,
\* and jobs that were not completed are still queued.
C20_Witness ==
    /\ lastCall = "clear:some,again"
    /\ Len(jobQueue) > 0

\* ------------------------------------------------- jobs with PDF content
\* The spooler fed with html and pdfBase64 jobs of normal priority.
TempNext ==
    \/ \E k \in Kinds : AddJobOfKind("normal", k)
    \/ \E id \in 1..MaxJobs : CancelJob(id)
    \/ RunImmediate
    \/ \E l \in LoopIds, ok \in BOOLEAN : PrintReturns(l, ok)
    \/ \E l \in LoopIds : SleepReturns(l)

TempSpec == Init /\ [][TempNext]_vars

TerminalStatus == {"completed", "failed", "cancelled"}

\* C16: once a job has left the active set (completed, failed or cancelled)
\* and no print of it is running any more, none of the temp PDF files written
\* for it exists.
C16_TempFilesRemoved ==
    \A j \in JobIds :
        (jobs[j].status \in TerminalStatus /\ ~PrintPending(j))
            => FilesOnDisk(j) = 0

\* ------------------------------------------------------ processServerJobs
\* printSpooler.getStatus(): it has no maxQueueSize field.
getStatus ==
    [isProcessing |-> isProcessing, queueLength |-> Len(jobQueue),
     currentJob |-> currentJob]

\* status.queueLength >= status.maxQueueSize: false when maxQueueSize is
\* undefined.
isQueueFull ==
    /\ "maxQueueSize" \in DOMAIN getStatus
    /\ getStatus.queueLength >= getStatus.maxQueueSize

\* The agent has finished server job sid: it has a job for it, and every job
\* it has for it is completed or failed.
Finished(sid) ==
    /\ \E j \in JobIds : jobs[j].serverJobId = sid
    /\ \A j \in JobIds : jobs[j].serverJobId = sid
                         => jobs[j].status \in {"completed", "failed"}

\* The agent remembering every server job id it has enqueued.
existingJobIds_Remembered ==
    {jobs[j].serverJobId : j \in JobIds} \ {NoServerId}

\* The serverJobIds of the jobs getJobQueue() returns.
existingJobIds ==
    {jobs[getJobQueue[i]].serverJobId : i \in 1..Len(getJobQueue)} \ {NoServerId}

\* jobs.filter(...): the server jobs whose id is not in existingJobIds.
newJobs(b) == SelectSeq(b, LAMBDA sj : sj \notin existingJobIds)

\* The job lists a poll can deliver: server job ids, repeated ids included.
Batches == UNION {[1..n -> ServerIds] : n \in 1..MaxBatch}

\* The test of processServerJobs' catch block sending every error to the
\* branch that reports the job as failed.
catchBreaks_Never(message) == FALSE

\* error.message.includes('queue is full'), on the only error addJob throws.
catchBreaks(message) == message = "Print queue is full"

\* One pass of `for (const serverJob of newJobs)`, for the server job sid with
\* the jobs rest after it: addJob, then either the assignment of serverJobId
\* or the catch block.  The server job has content of kind k and no priority
\* (`serverJob.priority || 'normal'`).
ServerJobStepOfKind(sid, rest, k) ==
    /\ addJobThrows \/ Len(jobs) < MaxServerJobs
    /\ addJob("normal", k, sid)
    /\ IF addJobThrows
       THEN IF catchBreaks("Print queue is full")
            THEN /\ batch' = <<>>
                 /\ skippedIds' = skippedIds \cup {sid}
                                     \cup {rest[i] : i \in 1..Len(rest)}
                 /\ UNCHANGED <<posted, pendingPosts>>
            ELSE /\ batch' = rest
                 /\ UNCHANGED skippedIds
                 /\ updateJobStatus(sid, "failed", "Print queue is full")
       ELSE /\ batch' = rest
            /\ skippedIds' = skippedIds \ {sid}
            /\ UNCHANGED <<posted, pendingPosts>>
    /\ lastCall' = IF ~addJobThrows /\ sid \in skippedIds
                   THEN "processServerJobs:accepted skipped"
                   ELSE IF ~addJobThrows /\ Finished(sid)
                   THEN "processServerJobs:accepted finished" ELSE "other"
    /\ UNCHANGED <<configVars, pendingImmediate, shutdownCalls,
                   cancelledInFlight, clientVars>>

\* The same pass for a server job with html content.
ServerJobStep(sid, rest) == ServerJobStepOfKind(sid, rest, "html")

\* processServerJobs(b), called with the jobs of a poll, up to its first
\* await; the first new job of b has content of kind k.
ProcessServerJobsOfKind(b, k) ==
    /\ batch = <<>>
    /\ IF isQueueFull \/ newJobs(b) = <<>>
       THEN /\ lastCall' = "other"
            /\ UNCHANGED <<configVars, jobs, jobQueue, currentJob, isProcessing,
                           loops, pendingImmediate, shutdownCalls, emitted,
                           attempts, ownFails, cancelledInFlight,
                           queueFullErrors, tempFiles, serverVars, clientVars>>
       ELSE ServerJobStepOfKind(Head(newJobs(b)), Tail(newJobs(b)), k)

\* processServerJobs(b) with server jobs that carry html content.
ProcessServerJobs(b) == ProcessServerJobsOfKind(b, "html")

\* processServerJobs resumes after `await printSpooler.addJob(jobData)`.  The
\* await is on a settled promise, so only microtasks run before it resumes:
\* no timer, I/O or IPC handler.  (A print settling in between would need an
\* executePrint that rejects without any I/O; that is not modelled.)
BatchStep ==
    /\ batch # <<>>
    /\ ServerJobStep(Head(batch), Tail(batch))

\* The answers to a status POST: an HTTP status, or 0 for a request that
\* fails or times out.
Answers == {200, 201, 204, 404, 500, 0}

\* What updateJobStatus returns for an answer.
updateJobStatusReturns(answer) == answer \in {200, 201, 204}

\* updateJobStatus resumes after `await this.makeRequest(...)`.
PostAnswered(answer) ==
    /\ pendingPosts > 0
    /\ pendingPosts' = pendingPosts - 1
    /\ lastCall' = IF updateJobStatusReturns(answer)
                   THEN "updateJobStatus:true" ELSE "updateJobStatus:false"
    /\ UNCHANGED <<configVars, jobs, jobQueue, currentJob, isProcessing, loops,
                   pendingImmediate, shutdownCalls, emitted, attempts,
                   ownFails, cancelledInFlight, queueFullErrors, tempFiles,
                   posted, batch, skippedIds, clientVars>>

ServerNext ==
    \/ BatchStep
    \/ /\ batch = <<>>
       /\ \/ \E b \in Batches : ProcessServerJobs(b)
          \/ \E answer \in Answers : PostAnswered(answer)
          \/ \E id \in 1..MaxServerJobs : CancelJob(id)
          \/ RunImmediate
          \/ \E l \in LoopIds, ok \in BOOLEAN : PrintReturns(l, ok)
          \/ \E l \in LoopIds : SleepReturns(l)

ServerSpec == Init /\ [][ServerNext]_vars

ActiveStatus == {"queued", "processing", "printing"}

\* C12: for every server job id, at most one job that is queued or in flight
\* carries it as its serverJobId.
C12_OneActivePerServerId ==
    \A sid \in ServerIds :
        Cardinality({j \in JobIds : /\ jobs[j].serverJobId = sid
                                    /\ jobs[j].status \in ActiveStatus}) <= 1

\* C13: when addJob refuses a job of a polled batch because the queue is full,
\* that job and the rest of the batch are dropped without being enqueued and
\* without any status POST; and a server job dropped that way is enqueued,
\* again without any POST, when a later poll delivers it while the queue has
\* room.
C13_FullQueueSkipsBatch ==
    [][/\ ((BatchStep \/ \E b \in Batches : ProcessServerJobs(b))
           /\ addJobThrows)
          => /\ batch' = <<>>
             /\ UNCHANGED <<jobs, jobQueue, currentJob, posted, pendingPosts>>
       /\ \A b \in Batches :
             (ProcessServerJobs(b) /\ ~addJobThrows /\ newJobs(b) # <<>>
                                  /\ Head(newJobs(b)) \in skippedIds)
             => /\ Len(jobs') = Len(jobs) + 1
                /\ jobs'[Len(jobs')].serverJobId = Head(newJobs(b))
                /\ InQueue(jobQueue', Len(jobs')) \/ currentJob' = Len(jobs')
                /\ UNCHANGED <<posted, pendingPosts>>]_vars

\* C13 witness: a server job that was dropped from a batch because the queue
\* was full has just been enqueued from a later poll, and no failed status
\* was ever posted for it.
C13_Witness ==
    /\ lastCall = "processServerJobs:accepted skipped"
    /\ queueFullErrors
    /\ Len(jobs) > 0
    /\ jobs[Len(jobs)].serverJobId # NoServerId
    /\ posted[jobs[Len(jobs)].serverJobId].failed = 0

\* The job-completed (kind = "completed") or job-failed events emitted for the
\* first n jobs that carry the server job id sid.
RECURSIVE EventsOf(_, _, _)
EventsOf(sid, kind, n) ==
    IF n = 0 THEN 0
    ELSE EventsOf(sid, kind, n - 1)
         + (IF jobs[n].serverJobId = sid THEN emitted[n][kind] ELSE 0)

BearerPrefix == <<"b", "e", "a", "r", "e", "r", " ">>

BearerValue == <<"B", "e", "a", "r", "e", "r", " ">>

\* String.prototype.toLowerCase on one character.
lowerChar(c) ==
    CASE c = "B" -> "b" [] c = "E" -> "e" [] c = "A" -> "a" [] c = "R" -> "r"
      [] c = "K" -> "k" [] OTHER -> c

\* toLowerCase left out: a case-sensitive prefix test.
toLowerCase_Identity(str) == str

toLowerCase(str) == [i \in 1..Len(str) |-> lowerChar(str[i])]

\* String.prototype.startsWith
startsWith(str, prefix) ==
    Len(str) >= Len(prefix) /\ SubSeq(str, 1, Len(prefix)) = prefix

\* The Authorization and X-API-Key headers makeRequest builds for apiKey key.
authHeaders(key) ==
    IF key # <<>> /\ Len(trim(key)) > 0
    THEN LET trimmedKey == trim(key) IN
         IF startsWith(toLowerCase(trimmedKey), BearerPrefix)
         THEN [Authorization |-> trimmedKey, XAPIKey |-> Absent]
         ELSE [Authorization |-> BearerValue \o trimmedKey, XAPIKey |-> trimmedKey]
    ELSE NoAuthHeaders

\* The apiKeys tried: each core with up to MaxPad blanks before and after it.
Blanks(n) == [i \in 1..n |-> " "]

KeyCores ==
    { <<>>,
      <<"k">>,
      <<"b", "e", "a", "r", "e", "r", " ", "k">>,
      <<"B", "e", "a", "r", "e", "r", " ", "k">>,
      <<"B", "E", "A", "R", "E", "R", " ", "K">>,
      <<"b", "e", "a", "r", "e", "r">>,
      <<"b", "e", "a", "r", "e", "r", "k">>,
      <<"k", " ", "b", "e", "a", "r", "e", "r", " ", "k">> }

ApiKeys ==
    {Blanks(a) \o core \o Blanks(b) : a \in 0..MaxPad, b \in 0..MaxPad,
                                      core \in KeyCores}

\* configManager.set('apiKey', key), from the set-config IPC handler.
SetApiKey(key) ==
    /\ apiKey' = key
    /\ lastCall' = "other"
    /\ UNCHANGED <<configVars, jobs, jobQueue, currentJob, isProcessing, loops,
                   pendingImmediate, shutdownCalls, emitted, attempts,
                   ownFails, cancelledInFlight, queueFullErrors, tempFiles,
                   serverVars, headers, timerVars, microtasks>>

\* makeRequest(method, path, data) up to client.request(options, ...).
MakeRequest ==
    /\ headers' = authHeaders(apiKey)
    /\ lastCall' = "makeRequest"
    /\ UNCHANGED <<configVars, jobs, jobQueue, currentJob, isProcessing, loops,
                   pendingImmediate, shutdownCalls, emitted, attempts,
                   ownFails, cancelledInFlight, queueFullErrors, tempFiles,
                   serverVars, apiKey, timerVars, microtasks>>

HeaderInit ==
    /\ maxRetries = 0
    /\ maxQueueSize = MaxQueueCfg
    /\ StoreInit
    /\ SpoolerInit
    /\ ServerInit
    /\ apiKey \in ApiKeys
    /\ headers = NoAuthHeaders
    /\ TimerInit
    /\ serverBaseUrl = ServerUrl

HeaderNext ==
    \/ \E key \in ApiKeys : SetApiKey(key)
    \/ MakeRequest

HeaderSpec == HeaderInit /\ [][HeaderNext]_vars

\* The same letter, whatever its case.
SameLetter(a, b) ==
    \/ a = b
    \/ {a, b} \in {{"b", "B"}, {"e", "E"}, {"a", "A"}, {"r", "R"}, {"k", "K"}}

\* str begins, case-insensitively, with 'bearer '.
BeginsWithBearer(str) ==
    /\ Len(str) >= 7
    /\ \A i \in 1..7 : SameLetter(str[i], BearerPrefix[i])

\* str without the blanks before its first and after its last other character.
Trimmed(str) ==
    LET inked == {i \in 1..Len(str) : str[i] # " "} IN
    IF inked = {} THEN <<>>
    ELSE SubSeq(str, CHOOSE i \in inked : \A k \in inked : i <= k,
                     CHOOSE i \in inked : \A k \in inked : i >= k)

\* C15 as claimed: for a non-empty apiKey whose trimmed value begins with
\* 'bearer ' the request carries Authorization equal to the key and no
\* X-API-Key; for any other non-empty apiKey it carries X-API-Key: <key> and
\* Authorization: Bearer <key>; with no key it carries neither.
C15_Original ==
    lastCall = "makeRequest" =>
        IF apiKey = <<>> THEN headers = NoAuthHeaders
        ELSE IF BeginsWithBearer(Trimmed(apiKey))
        THEN headers = [Authorization |-> apiKey, XAPIKey |-> Absent]
        ELSE headers = [Authorization |-> BearerValue \o apiKey,
                        XAPIKey |-> apiKey]

\* C15 as amended: the headers are built from the trimmed key t.  When t is
\* empty (no key, or blanks only) neither header is sent; when t begins
\* case-insensitively with 'bearer ' the request carries Authorization: t and
\* no X-API-Key; otherwise it carries X-API-Key: t and Authorization: Bearer t.
C15_TrimmedKeyHeaders ==
    lastCall = "makeRequest" =>
        LET t == Trimmed(apiKey) IN
        IF t = <<>> THEN headers = NoAuthHeaders
        ELSE IF BeginsWithBearer(t)
        THEN headers = [Authorization |-> t, XAPIKey |-> Absent]
        ELSE headers = [Authorization |-> BearerValue \o t, XAPIKey |-> t]

\* C15 witness: a request was built for a key with blanks around it whose
\* trimmed value begins with 'BEARER ' in capitals: it carries the trimmed key
\* as Authorization and no X-API-Key.
C15_Witness ==
    /\ lastCall = "makeRequest"
    /\ Len(apiKey) > 0 /\ Head(apiKey) = " " /\ apiKey[Len(apiKey)] = " "
    /\ headers.XAPIKey = Absent
    /\ headers.Authorization = <<"B", "E", "A", "R", "E", "R", " ", "K">>

\* ---------------------------------------------------------------------------
\* Shutdown and later submissions (PrintSpooler.js 294-319, 698-710).

\* C21: once shutdown() has been called, a later addJob adds no job, leaves
\* the queue and the current job alone and starts no dispatch.
C21_ShutdownRefusesJobs ==
    [][\A p \in Priorities :
          (AddJob(p) /\ shutdownCalls > 0)
          => UNCHANGED <<jobs, jobQueue, currentJob, loops>>]_vars

\* ---------------------------------------------------------------------------
\* Submissions with and without content, from the local API and the poller
\* (part_002 39-77, PrintSpooler.js 294-319 and 777-830).

\* The validation of POST /api/print letting every body through.
hasContent_Always(k) == TRUE

\* The validation of POST /api/print: one of pdf, pdfBase64, pdfPath, pdfUrl,
\* html, url is given.
hasContent(k) == k # NoContent

\* The answers of POST /api/print, as lastCall records them.
Answer400 == "POST /api/print:400"
Answer500 == "POST /api/print:500"
Answer200 == "POST /api/print:200"

\* The handler of POST /api/print for a body with priority p and content k.
PostPrint(p, k) ==
    IF ~hasContent(k)
    THEN /\ lastCall' = Answer400
         /\ UNCHANGED <<configVars, jobs, jobQueue, currentJob, isProcessing,
                        loops, pendingImmediate, shutdownCalls, emitted,
                        attempts, ownFails, cancelledInFlight,
                        queueFullErrors, tempFiles, serverVars, clientVars>>
    ELSE /\ addJobThrows \/ Len(jobs) < MaxJobs
         /\ addJob(p, k, NoServerId)
         /\ lastCall' = IF addJobThrows THEN Answer500 ELSE Answer200
         /\ UNCHANGED <<configVars, pendingImmediate, shutdownCalls,
                        cancelledInFlight, serverVars, clientVars>>

\* The spooler fed by POST /api/print and by polls that deliver one job each.
SubmitNext ==
    \/ \E p \in Priorities, k \in Payloads : PostPrint(p, k)
    \/ \E sid \in ServerIds, k \in Payloads :
          ProcessServerJobsOfKind(<<sid>>, k)
    \/ \E answer \in Answers : PostAnswered(answer)
    \/ \E l \in LoopIds, ok \in BOOLEAN : PrintReturns(l, ok)
    \/ \E l \in LoopIds : SleepReturns(l)

SubmitSpec == Init /\ [][SubmitNext]_vars

\* C22: a submission without content never becomes a job, whoever submits
\* it: no job of the spooler is without content, so none is queued or
\* attempted.
C22_NoContentNeverEnqueued ==
    \A j \in JobIds : jobs[j].kind # NoContent

\* C23: POST /api/print answers 400 to a body without content and 500 to a
\* body with content when the queue is full; in both cases no job is created
\* (jobs grows exactly when job-added is emitted), and the queue, the current
\* job and the dispatch loops are unchanged.
C23_PostPrintRejects ==
    [][\A p \in Priorities, k \in Payloads :
          (PostPrint(p, k) /\ (k = NoContent \/ addJobThrows))
          => /\ lastCall' = IF k = NoContent THEN Answer400 ELSE Answer500
             /\ UNCHANGED <<jobs, jobQueue, currentJob, loops, emitted,
                            attempts>>]_vars

\* C23 witness: POST /api/print has just answered 500 on a full queue while a
\* job is being printed.
C23_Witness ==
    /\ lastCall = Answer500
    /\ Len(jobQueue) = maxQueueSize
    /\ currentJob # NoJob
    /\ jobs[currentJob].status = "processing"

\* ---------------------------------------------------------------------------
\* ServerClient: polling and heartbeat timers (ServerClient.js 170-195,
\* 249-340, 372-425; PrintSpooler.js 981-1006).

\* Everything but the timers of the server client and lastCall.
agentVars == <<configVars, jobs, jobQueue, currentJob, isProcessing, loops,
               pendingImmediate, shutdownCalls, emitted, attempts, ownFails,
               cancelledInFlight, queueFullErrors, tempFiles, batch,
               skippedIds, apiKey, headers, microtasks>>

\* Requests in flight.  stale: sent by a ServerClient object that
\* update-server-config has replaced since.
Poll == [kind |-> "poll", status |-> "none", stale |-> FALSE]
Heartbeat(status) == [kind |-> "heartbeat", status |-> status, stale |-> FALSE]

\* There is room for n more requests in flight.
Room(n) == Len(requests) + n <= MaxInFlight

\* clearInterval left out: the timer the handle names stays alive.
clearInterval_NoOp(handle, timers) == timers

\* `if (handle) clearInterval(handle)`: the live timers left.
clearInterval(handle, timers) == IF handle THEN timers - 1 ELSE timers

\* pollForJobs() up to its await: the requests in flight after it.
pollForJobs(reqs) == IF ~isConfigured THEN reqs ELSE Append(reqs, Poll)

\* sendHeartbeat falling back on 'online' instead of this.currentStatus.
sendHeartbeat_Online(status, reqs) ==
    IF ~isConfigured THEN reqs
    ELSE Append(reqs, Heartbeat(IF status = "null" THEN "online" ELSE status))

\* sendHeartbeat(status) up to its await, status "null" when none is given:
\* the requests in flight after it.
sendHeartbeat(status, reqs) ==
    IF ~isConfigured THEN reqs
    ELSE Append(reqs, Heartbeat(IF status = "null" THEN currentStatus
                                ELSE status))

\* configManager.set('serverBaseUrl', url), from the set-config IPC handler.
SetServerBaseUrl(url) ==
    /\ serverBaseUrl' = url
    /\ lastCall' = "other"
    /\ UNCHANGED <<agentVars, posted, pendingPosts, isPolling, pollInterval,
                   pollTimers, heartbeatInterval, heartbeatTimers,
                   currentStatus, requests>>

\* startPolling(callback)
StartPolling ==
    /\ Room(1)
    /\ IF isPolling \/ ~isConfigured
       THEN /\ lastCall' = "startPolling:skipped"
            /\ UNCHANGED <<isPolling, pollInterval, pollTimers, requests>>
       ELSE /\ isPolling' = TRUE
            /\ requests' = pollForJobs(requests)
            /\ pollInterval' = TRUE
            /\ pollTimers' = pollTimers + 1
            /\ lastCall' = "other"
    /\ UNCHANGED <<agentVars, posted, pendingPosts, serverBaseUrl,
                   heartbeatInterval, heartbeatTimers, currentStatus>>

\* The callback of the polling interval timer, up to the await of
\* pollForJobs.
PollTick ==
    /\ pollTimers > 0
    /\ Room(1)
    /\ requests' = pollForJobs(requests)
    /\ lastCall' = IF isConfigured THEN "other" ELSE "pollForJobs:[]"
    /\ UNCHANGED <<agentVars, posted, pendingPosts, serverBaseUrl, isPolling,
                   pollInterval, pollTimers, heartbeatInterval,
                   heartbeatTimers, currentStatus>>

\* startHeartbeat()
StartHeartbeat ==
    /\ Room(1)
    /\ LET cleared == clearInterval(heartbeatInterval, heartbeatTimers) IN
       IF ~isConfigured
       THEN /\ heartbeatInterval' = FALSE
            /\ heartbeatTimers' = cleared
            /\ lastCall' = "startHeartbeat:skipped"
            /\ UNCHANGED requests
       ELSE /\ requests' = sendHeartbeat("online", requests)
            /\ heartbeatInterval' = TRUE
            /\ heartbeatTimers' = cleared + 1
            /\ lastCall' = "other"
    /\ UNCHANGED <<agentVars, posted, pendingPosts, serverBaseUrl, isPolling,
                   pollInterval, pollTimers, currentStatus>>

\* The callback of the heartbeat interval timer: sendHeartbeat() up to its
\* await.
HeartbeatTick ==
    /\ heartbeatTimers > 0
    /\ Room(1)
    /\ requests' = sendHeartbeat("null", requests)
    /\ lastCall' = IF isConfigured THEN "other" ELSE "sendHeartbeat:false"
    /\ UNCHANGED <<agentVars, posted, pendingPosts, serverBaseUrl, isPolling,
                   pollInterval, pollTimers, heartbeatInterval,
                   heartbeatTimers, currentStatus>>

\* stop(): stopPolling() then stopHeartbeat().
Stop ==
    /\ Room(1)
    /\ pollTimers' = clearInterval(pollInterval, pollTimers)
    /\ pollInterval' = FALSE
    /\ isPolling' = FALSE
    /\ heartbeatTimers' = clearInterval(heartbeatInterval, heartbeatTimers)
    /\ heartbeatInterval' = FALSE
    /\ requests' = sendHeartbeat("offline", requests)
    /\ lastCall' = "stop"
    /\ UNCHANGED <<agentVars, posted, pendingPosts, serverBaseUrl,
                   currentStatus>>

\* The update-server-config IPC handler: stop(), a new ServerClient, and
\* startPolling and startHeartbeat on it when the URL is configured.
UpdateServerConfig ==
    /\ Room(3)
    /\ LET stopped == sendHeartbeat("offline", requests)
           old == [i \in 1..Len(stopped) |-> [stopped[i] EXCEPT !.stale = TRUE]]
           polls == clearInterval(pollInterval, pollTimers)
           beats == clearInterval(heartbeatInterval, heartbeatTimers)
       IN  IF isConfigured
           THEN /\ isPolling' = TRUE
                /\ pollInterval' = TRUE
                /\ pollTimers' = polls + 1
                /\ heartbeatInterval' = TRUE
                /\ heartbeatTimers' = beats + 1
                /\ requests' = sendHeartbeat("online", pollForJobs(old))
           ELSE /\ isPolling' = FALSE
                /\ pollInterval' = FALSE
                /\ pollTimers' = polls
                /\ heartbeatInterval' = FALSE
                /\ heartbeatTimers' = beats
                /\ requests' = old
    /\ currentStatus' = "online"
    /\ lastCall' = "other"
    /\ UNCHANGED <<agentVars, posted, pendingPosts, serverBaseUrl>>

\* The job-completed handler for a job with serverJobId sid, up to the await
\* in updateJobStatus.
ReportPrinted(sid) ==
    /\ posted[sid].printed < MaxInFlight
    /\ updateJobStatus(sid, "printed", NoMessage)
    /\ lastCall' = IF isConfigured THEN "other" ELSE "updateJobStatus:false"
    /\ UNCHANGED <<agentVars, timerVars>>

\* Request i is answered, a poll with a list of no jobs or an error.  A
\* heartbeat answered 200, 201 or 204 sets currentStatus of the client that
\* sent it.
Response(i, answer) ==
    /\ i \in 1..Len(requests)
    /\ requests' = Splice(requests, i)
    /\ currentStatus' =
          IF /\ requests[i].kind = "heartbeat"
             /\ ~requests[i].stale
             /\ answer \in {200, 201, 204}
          THEN requests[i].status ELSE currentStatus
    /\ lastCall' = "other"
    /\ UNCHANGED <<agentVars, posted, pendingPosts, serverBaseUrl, isPolling,
                   pollInterval, pollTimers, heartbeatInterval,
                   heartbeatTimers>>

\* The agent after construction, with any serverBaseUrl setting.
ClientSpecInit ==
    /\ maxRetries = 0
    /\ maxQueueSize = MaxQueueCfg
    /\ StoreInit
    /\ SpoolerInit
    /\ ServerInit
    /\ ClientInit
    /\ TimerInit
    /\ serverBaseUrl \in Urls

ClientNext ==
    \/ \E url \in Urls : SetServerBaseUrl(url)
    \/ StartPolling
    \/ PollTick
    \/ StartHeartbeat
    \/ HeartbeatTick
    \/ Stop
    \/ UpdateServerConfig
    \/ ReportPrinted(1)
    \/ \E i \in 1..MaxInFlight, answer \in Answers : Response(i, answer)

ClientSpec == ClientSpecInit /\ [][ClientNext]_vars

TimerTypeOK ==
    /\ serverBaseUrl \in Urls
    /\ isPolling \in BOOLEAN /\ pollInterval \in BOOLEAN
    /\ heartbeatInterval \in BOOLEAN
    /\ pollTimers \in Nat /\ heartbeatTimers \in Nat
    /\ currentStatus \in {"online", "offline"}
    /\ Len(requests) <= MaxInFlight

\* C24: while serverBaseUrl is empty or blank, no step of the client sends a
\* poll, a heartbeat or a status update, and none starts polling or a timer.
C24_UnconfiguredSilent ==
    [][Len(trim(serverBaseUrl)) = 0
       => /\ Len(requests') <= Len(requests)
          /\ posted' = posted
          /\ pendingPosts' <= pendingPosts
          /\ pollTimers' <= pollTimers
          /\ heartbeatTimers' <= heartbeatTimers
          /\ isPolling' => isPolling]_vars

\* C24 witness: both timers were started while a URL was configured, the URL
\* was then emptied, and a heartbeat tick has just returned without a request.
C24_Witness ==
    /\ serverBaseUrl = <<>>
    /\ pollTimers = 1
    /\ heartbeatTimers = 1
    /\ lastCall = "sendHeartbeat:false"
    /\ requests = <<>>
    /\ pendingPosts = 0

\* C25: on a configured client startHeartbeat sends one online heartbeat and
\* leaves one timer, each tick of that timer sends one heartbeat and only
\* while the client holds the timer, stop() leaves no timer and sends one
\* offline heartbeat, and there is never more than one live heartbeat timer.
C25_HeartbeatTimer ==
    /\ [](heartbeatTimers <= 1)
    /\ [][isConfigured
          => /\ StartHeartbeat
                => /\ requests' = Append(requests, Heartbeat("online"))
                   /\ heartbeatTimers' = 1
             /\ HeartbeatTick
                => /\ heartbeatInterval
                   /\ requests' = Append(requests, Heartbeat(currentStatus))
             /\ Stop
                => /\ heartbeatTimers' = 0
                   /\ requests' = Append(requests, Heartbeat("offline"))]_vars

\* C25 witness: startHeartbeat, one tick and stop() have sent an online, a
\* periodic and an offline heartbeat, and no timer is left.
C25_Witness ==
    /\ isConfigured
    /\ lastCall = "stop"
    /\ heartbeatTimers = 0
    /\ ~heartbeatInterval
    /\ requests = <<Heartbeat("online"), Heartbeat("online"),
                    Heartbeat("offline")>>

\* ---------------------------------------------------------------------------
\* The order of dispatch after a failed attempt (PrintSpooler.js 331-358).

\* A job put back in the queue after a failed attempt, waiting there.
AwaitsRetry(js, q, k) ==
    InQueue(q, k) /\ js[k].status = "queued" /\ js[k].retryCount > 0

C28_TerminalAbsorbing ==
    [][\A j \in JobIds :
          /\ jobs[j].status \in {"completed", "cancelled"}
             => jobs'[j].status = jobs[j].status
          /\ (jobs[j].status = "failed" /\ jobs'[j].status # "failed")
             => RetryJob(j) /\ jobs'[j].status = "queued"
          /\ (jobs'[j].status = "completed" /\ jobs[j].status # "completed")
             => \E l \in LoopIds : PrintReturns(l, TRUE) /\ loops[l].job = j]_vars

\* ---------------------------------------------------------------------------
\* Server jobs delivered again (PrintSpooler.js 745-809).

\* Job j is queued, waiting for a retry or being printed.
IsActive(j) == jobs[j].status \in {"queued", "processing"}

\* A step in which processServerJobs enqueues a job for server job sid.
Enqueued(sid) ==
    /\ Len(jobs') = Len(jobs) + 1
    /\ jobs'[Len(jobs')].serverJobId = sid

\* C29: processServerJobs never enqueues a server job whose id is the
\* serverJobId of a job that is queued, waiting for a retry or being printed.
C29_ActiveIdSkipped ==
    [][\A sid \in ServerIds :
          Enqueued(sid)
          => ~ \E j \in JobIds : jobs[j].serverJobId = sid /\ IsActive(j)]_vars

\* C30: a poll whose first job is a server job the agent has finished makes
\* processServerJobs enqueue it again, unless the queue is full, and on an
\* idle spooler the new job is dispatched in the same step.
C30_FinishedRedelivered ==
    [][\A b \in Batches :
          (ProcessServerJobs(b) /\ Finished(b[1]) /\ ~addJobThrows)
          => /\ Enqueued(b[1])
             /\ ~isProcessing => attempts'[Len(jobs')] = 1]_vars

\* C30 witness: processServerJobs has just accepted a server job whose
\* earlier job is completed and reported, and the new job is being printed.
C30_Witness ==
    \E i \in JobIds, j \in JobIds :
        /\ lastCall = "processServerJobs:accepted finished"
        /\ i < j /\ j = Len(jobs)
        /\ jobs[i].serverJobId # NoServerId
        /\ jobs[i].serverJobId = jobs[j].serverJobId
        /\ jobs[i].status = "completed" /\ emitted[i].completed = 1
        /\ posted[jobs[i].serverJobId].printed = 1
        /\ jobs[j].status = "processing" /\ PrintPending(j)

\* ---------------------------------------------------------------------------
\* The events of one job (PrintSpooler.js 294-369, 607-653).

\* The job-completed and job-failed events emitted for job j so far.
TerminalEvents(em, j) == em[j].completed + em[j].failed

\* C31: a job gets at most one of job-completed / job-failed, and once it has
\* one, no further event is emitted for it: no second terminal event and no
\* job-updated from a dispatch, a requeue or a cancel, unless retryJob puts
\* it back.  (job-added is emitted where the job is created, line 311, before
\* anything else can happen to it.)
C31_EventOrder ==
    /\ [](\A j \in JobIds : TerminalEvents(emitted, j) <= 1)
    /\ [][\A j \in JobIds :
             (TerminalEvents(emitted, j) >= 1
                /\ ~(RetryJob(j) /\ retryJobReturns(j)))
             => /\ emitted'[j] = emitted[j]
                /\ attempts'[j] = attempts[j]
                /\ jobs'[j].retryCount = jobs[j].retryCount
                /\ jobs'[j].status = jobs[j].status]_vars

\* ---------------------------------------------------------------------------
\* Settings changed at runtime (ConfigManager.js 46-53, PrintSpooler.js 8-18
\* and 981-990).

\* The set-config IPC handler for key maxRetries or maxQueueSize:
\* configManager.set(key, value), and nothing else for these keys.
SetConfig(key, value) ==
    /\ storedConfig' = [storedConfig EXCEPT ![key] = value]
    /\ lastCall' = "other"
    /\ UNCHANGED <<maxRetries, maxQueueSize, jobs, jobQueue, currentJob,
                   isProcessing, loops, pendingImmediate, shutdownCalls,
                   emitted, attempts, ownFails, cancelledInFlight,
                   queueFullErrors, tempFiles, serverVars, clientVars>>

\* The spooler with its settings changed while it runs.
ConfigNext ==
    \/ \E value \in 0..MaxRetriesCfg : SetConfig("maxRetries", value)
    \/ \E value \in 1..MaxQueueCfg : SetConfig("maxQueueSize", value)
    \/ \E p \in Priorities : AddJob(p)
    \/ \E l \in LoopIds, ok \in BOOLEAN : PrintReturns(l, ok)
    \/ \E l \in LoopIds : SleepReturns(l)

ConfigSpec == Init /\ [][ConfigNext]_vars

\* C32: the spooler decides with the stored settings: addJob throws exactly
\* when the queue holds the stored maxQueueSize jobs or more, and a failed
\* attempt is followed by a retry exactly when the job's retryCount is below
\* the stored maxRetries.
C32_StoreIsTruth ==
    [][/\ \A p \in Priorities :
             AddJob(p) => (jobs' = jobs
                           <=> Len(jobQueue) >= storedConfig.maxQueueSize)
       /\ \A l \in LoopIds :
             (PrintReturns(l, FALSE) /\ currentJob # NoJob)
             => (jobs'[currentJob].retryCount = jobs[currentJob].retryCount + 1
                 <=> jobs[currentJob].retryCount < storedConfig.maxRetries)]_vars

\* ---------------------------------------------------------------------------
\* What addJob returns (PrintSpooler.js 294-319, part_002 64-70).

\* C33: the job a successful addJob returns, whose status POST /api/print
\* puts in its 200 response, has status queued.
C33_ReturnedJobQueued ==
    [][\A p \in Priorities, k \in Payloads :
          (PostPrint(p, k) /\ lastCall' = Answer200)
          => jobs'[Len(jobs')].status = "queued"]_vars

\* ---------------------------------------------------------------------------
\* The queue bound and the isProcessing flag (PrintSpooler.js 305-310,
\* 324-369, 616-623, 698-710).

\* C34: the queue never holds more than maxQueueSize jobs.
C34_QueueBounded ==
    Len(jobQueue) <= maxQueueSize

\* A processQueue invocation is suspended at one of its awaits.
LoopLive == \E l \in LoopIds : loops[l].pc # "idle"

\* C35: isProcessing is true exactly when a processQueue loop is live.
C35_FlagMatchesLoop ==
    isProcessing <=> LoopLive

\* ---------------------------------------------------------------------------
\* The spooler draining its queue (PrintSpooler.js 294-369).

\* cancelJob(id) for any job but the one in flight.
CancelNotInFlight(id) ==
    /\ ~(FindIndex(jobQueue, id) = 0 /\ currentJob # NoJob /\ currentJob = id)
    /\ CancelJob(id)

\* The spooler without shutdown() and without cancelJob on the in-flight job.
LiveNext ==
    \/ \E p \in Priorities : AddJob(p)
    \/ \E id \in 1..MaxJobs : CancelNotInFlight(id)
    \/ \E id \in 1..MaxJobs : RetryJob(id)
    \/ clearCompletedJobs
    \/ \E l \in LoopIds, ok \in BOOLEAN : PrintReturns(l, ok)
    \/ \E l \in LoopIds : SleepReturns(l)

\* Every print attempt settles and every retry delay ends.
LiveSpec ==
    /\ Init
    /\ [][LiveNext]_vars
    /\ WF_vars(\E l \in LoopIds, ok \in BOOLEAN : PrintReturns(l, ok))
    /\ WF_vars(\E l \in LoopIds : SleepReturns(l))

\* Every job is completed, failed or cancelled and the spooler is idle.
Drained ==
    /\ \A j \in JobIds : jobs[j].status \in TerminalStatus
    /\ jobQueue = <<>>
    /\ currentJob = NoJob
    /\ ~isProcessing

\* C36: with finitely many jobs, every print attempt settling, no shutdown()
\* and no cancelJob on the in-flight job, the spooler ends up, and stays, with
\* every job completed, failed or cancelled, an empty queue, no current job
\* and isProcessing false.
C36_Drains ==
    <>[]Drained

\* C36 witness: the spooler has drained after MaxJobs jobs, one of them
\* completed after a retry and one cancelled in the queue.
C36_Witness ==
    /\ Drained
    /\ Len(jobs) = MaxJobs
    /\ \E j \in JobIds : jobs[j].status = "completed" /\ jobs[j].retryCount > 0
    /\ \E j \in JobIds : jobs[j].status = "cancelled"

\* ---------------------------------------------------------------------------
\* Which job a print result is applied to (PrintSpooler.js 338-365).

\* C37: when executePrint settles in a loop and the code after the await
\* marks a job (completed, requeued or failed), that job is the one the
\* settled executePrint call was made for.
C37_ResultToOwnJob ==
    [][\A l \in LoopIds, ok \in BOOLEAN :
          (PrintReturns(l, ok) /\ currentJob # NoJob)
          => currentJob = loops[l].job]_vars

\* ---------------------------------------------------------------------------
\* Cancelled jobs stay out of the printer (PrintSpooler.js 607-614, 331-365).

\* The spooler with room for a second retry of the same job.
RetryInit ==
    /\ maxRetries = MaxRetriesCfg + 1
    /\ maxQueueSize \in 1..MaxQueueCfg
    /\ StoreInit
    /\ SpoolerInit
    /\ ServerInit
    /\ ClientInit
    /\ TimerInit
    /\ serverBaseUrl = ServerUrl

RetrySpec == RetryInit /\ [][Next]_vars

\* C38: no print attempt is started for a job that is cancelled.
C38_NoPrintAfterCancel ==
    [][\A d \in JobIds :
          jobs[d].status = "cancelled" => ~Dispatched(d)]_vars

\* ---------------------------------------------------------------------------
\* processServerJobs and processQueue promise job by promise job
\* (PrintSpooler.js 776-809, 294-319, 324-398).  A timer, I/O or IPC callback
\* runs only when the microtask queue is empty.

\* executePrint returning its promise without being an async function: the
\* await of processQueue is then on the rejected promise itself.
executePrintChain_NotAsync == <<"resume">>

\* The promise jobs between reject(new Error('No print content provided')) in
\* the executor of executePrint and the catch block of processQueue:
\* `async executePrint` resolves its own promise with the rejected one (a job
\* that calls then on it), the reaction to that rejects the async function's
\* promise, and the reaction to that resumes processQueue.
executePrintChain == <<"thenable", "reaction", "resume">>

\* The first of these jobs, for the executePrint call of loop l.
Settling(l) ==
    [task |-> executePrintChain, loop |-> l, job |-> NoJob, sid |-> NoServerId]

\* processServerJobs waiting on `await printSpooler.addJob(jobData)`, which
\* returned local job j for the server job sid.
Resuming(j, sid) ==
    [task |-> <<"processServerJobs">>, loop |-> 0, job |-> j, sid |-> sid]

\* executePrint is called in this step.
Called ==
    \E d \in DOMAIN attempts' :
       attempts'[d] > (IF d \in DOMAIN attempts THEN attempts[d] ELSE 0)

\* What a step of loop l adds to the microtask queue: the jobs of a rejection
\* when it calls executePrint for a job without content.
Rejecting(l) ==
    IF Called /\ loops'[l].pc = "print"
              /\ jobs'[loops'[l].job].kind = NoContent
    THEN <<Settling(l)>> ELSE <<>>

\* One pass of `for (const serverJob of newJobs)` up to its await, for the
\* server job sid with content of kind k and the jobs rest after it: addJob,
\* called with the jobs js and the promise jobs mt waiting.
AddServerJob(js, sid, rest, k, mt) ==
    /\ addJobThrows \/ Len(js) < MaxJobs
    /\ addJobTo(js, "normal", k, NoServerId)
    /\ IF addJobThrows
       THEN /\ batch' = <<>>
            /\ skippedIds' = skippedIds \cup {sid}
                                \cup {rest[i] : i \in 1..Len(rest)}
            /\ microtasks' = mt
       ELSE /\ batch' = rest
            /\ skippedIds' = skippedIds \ {sid}
            /\ microtasks' = mt \o Rejecting(FreeLoop)
                                \o <<Resuming(Len(js) + 1, sid)>>
    /\ lastCall' = "other"
    /\ UNCHANGED <<configVars, pendingImmediate, shutdownCalls,
                   cancelledInFlight, posted, pendingPosts, apiKey, headers,
                   timerVars>>

\* processServerJobs(b), called by the polling callback with a job list whose
\* first new job has content of kind k, when it gets as far as addJob.
DeliverJobs(b, k) ==
    /\ microtasks = <<>>
    /\ ~isQueueFull
    /\ newJobs(b) # <<>>
    /\ AddServerJob(jobs, Head(newJobs(b)), Tail(newJobs(b)), k, <<>>)

\* The promise job at the head of the microtask queue runs: processServerJobs
\* sets localJob.serverJobId and goes on with its loop, or the rejection of
\* an executePrint call moves one job further, or processQueue resumes in its
\* catch block.
RunMicrotask ==
    /\ microtasks # <<>>
    /\ LET m == Head(microtasks)
           mt == Tail(microtasks)
       IN  IF m.task = <<"processServerJobs">>
           THEN LET js == [jobs EXCEPT ![m.job].serverJobId = m.sid] IN
                IF batch = <<>>
                THEN /\ jobs' = js
                     /\ microtasks' = mt
                     /\ lastCall' = "other"
                     /\ UNCHANGED <<configVars, jobQueue, currentJob,
                                    isProcessing, loops, pendingImmediate,
                                    shutdownCalls, emitted, attempts, ownFails,
                                    cancelledInFlight, queueFullErrors,
                                    tempFiles, serverVars, apiKey, headers,
                                    timerVars>>
                ELSE \E k \in Payloads :
                        AddServerJob(js, Head(batch), Tail(batch), k, mt)
           ELSE IF Len(m.task) > 1
           THEN /\ microtasks' = Append(mt, [m EXCEPT !.task = Tail(@)])
                /\ lastCall' = "other"
                /\ UNCHANGED <<configVars, jobs, jobQueue, currentJob,
                               isProcessing, loops, pendingImmediate,
                               shutdownCalls, emitted, attempts, ownFails,
                               cancelledInFlight, queueFullErrors, tempFiles,
                               serverVars, apiKey, headers, timerVars>>
           ELSE /\ PrintReturnsStep(m.loop, FALSE)
                /\ microtasks' = mt \o Rejecting(m.loop)

\* The print window reports the outcome of a job with content.
WindowReturns(l, ok) ==
    /\ microtasks = <<>>
    /\ loops[l].pc = "print"
    /\ jobs[loops[l].job].kind # NoContent
    /\ PrintReturnsStep(l, ok)
    /\ microtasks' = Rejecting(l)

\* The retry timer fires.
TimerReturns(l) ==
    /\ microtasks = <<>>
    /\ SleepReturnsStep(l)
    /\ microtasks' = Rejecting(l)

\* The setImmediate callback of cancelJob runs.
ImmediateRuns ==
    /\ microtasks = <<>>
    /\ RunImmediateStep
    /\ microtasks' = Rejecting(FreeLoop)

TickNext ==
    \/ \E b \in Batches, k \in Payloads : DeliverJobs(b, k)
    \/ RunMicrotask
    \/ \E l \in LoopIds, ok \in BOOLEAN : WindowReturns(l, ok)
    \/ \E l \in LoopIds : TimerReturns(l)
    \/ ImmediateRuns
    \/ microtasks = <<>> /\ \E id \in 1..MaxJobs : CancelJob(id)
    \/ microtasks = <<>> /\ Shutdown

TickSpec == Init /\ [][TickNext]_vars

\* C39: whenever job-completed or job-failed is emitted with a job that
\* processServerJobs enqueued, the job already carries its serverJobId and the
\* handler of the event sends a status POST.
C39_IdBeforeEvent ==
    [][\A j \in JobIds :
          emitted'[j] # emitted[j]
          => /\ jobs[j].serverJobId # NoServerId
             /\ pendingPosts' = pendingPosts + 1]_vars

\* A server job without content has failed at its first attempt with
\* maxRetries = 0, and its failure was reported.
C39_Witness ==
    \E j \in JobIds :
       /\ maxRetries = 0
       /\ jobs[j].kind = NoContent
       /\ jobs[j].status = "failed"
       /\ attempts[j] = 1
       /\ TerminalEvents(emitted, j) = 1
       /\ jobs[j].serverJobId # NoServerId
       /\ posted[jobs[j].serverJobId].failed = 1

\* ---------------------------------------------------------------------------
\* The status the heartbeats report (ServerClient.js 249-285, 307-318;
\* PrintSpooler.js 816-824).

\* The catch block of processServerJobs for an error other than the full
\* queue: serverClient.sendHeartbeat('error', error.message), up to its await.
ErrorHeartbeat ==
    /\ Room(1)
    /\ requests' = sendHeartbeat("error", requests)
    /\ lastCall' = IF isConfigured THEN "other" ELSE "sendHeartbeat:false"
    /\ UNCHANGED <<agentVars, posted, pendingPosts, serverBaseUrl, isPolling,
                   pollInterval, pollTimers, heartbeatInterval,
                   heartbeatTimers, currentStatus>>

StatusNext ==
    \/ ClientNext
    \/ ErrorHeartbeat

StatusSpec == ClientSpecInit /\ [][StatusNext]_vars

\* The heartbeat timer fires with a server URL configured: a periodic
\* heartbeat is sent.
PeriodicSent == HeartbeatTick /\ isConfigured

\* The server acknowledges, with 200, 201 or 204, request i.
Acknowledged(i) == \E answer \in {200, 201, 204} : Response(i, answer)

\* A request is answered with something else, or fails.
Unacknowledged ==
    \E i \in 1..MaxInFlight, answer \in Answers \ {200, 201, 204} :
       Response(i, answer)

\* C40, as stated: a periodic heartbeat carries the status last acknowledged,
\* and that status changes only when the server acknowledges a heartbeat
\* carrying the new status.
C40_Original ==
    [][/\ PeriodicSent
          => requests'[Len(requests')].status = currentStatus
       /\ currentStatus' # currentStatus
          => \E i \in 1..Len(requests) :
                /\ requests[i].kind = "heartbeat"
                /\ requests[i].status = currentStatus'
                /\ Acknowledged(i)
       /\ Unacknowledged => currentStatus' = currentStatus]_vars

\* C40, amended: a periodic heartbeat carries the status of the heartbeat of
\* the current ServerClient object that was acknowledged last, online when
\* none was; update-server-config replaces the object, which starts at online
\* again, and answers to heartbeats of a replaced object change nothing.
C40_PerClient ==
    [][/\ PeriodicSent
          => requests'[Len(requests')].status = currentStatus
       /\ currentStatus' # currentStatus
          => \/ UpdateServerConfig /\ currentStatus' = "online"
             \/ \E i \in 1..Len(requests) :
                   /\ requests[i].kind = "heartbeat"
                   /\ ~requests[i].stale
                   /\ requests[i].status = currentStatus'
                   /\ Acknowledged(i)
       /\ \A i \in 1..Len(requests) :
             (Acknowledged(i) /\ requests[i].kind = "heartbeat"
                              /\ ~requests[i].stale)
             => currentStatus' = requests[i].status
       /\ Unacknowledged => currentStatus' = currentStatus]_vars

\* An error heartbeat was acknowledged and the heartbeat sent last, by the
\* current ServerClient object with its timer running, carries error.
C40_Witness ==
    /\ currentStatus = "error"
    /\ heartbeatTimers > 0
    /\ requests # <<>>
    /\ requests[Len(requests)] = Heartbeat("error")
====
